---- MODULE Spec2Model ----
(***************************************************************************)
(* castmail2list: incoming mail classification and dispatch.               *)
(*                                                                         *)
(* Strings are sequences of one-character strings, so that split, lower,   *)
(* replace and "in" are computed the way Python computes them.             *)
(***************************************************************************)
EXTENDS Integers, Sequences, FiniteSets, TLC

VARIABLES
    lists,      \* table "list": id -> MailingList row
    subs,       \* table "subscriber": rows in primary-key order
    emailIn,    \* table "email_in": rows in insertion order
    inbox,      \* list id -> messages in the list's IMAP INBOX, oldest first
    moved,      \* IMAP flag/move operations done so far, one entry per handled message
    sendCalls,  \* invocations of send_msg_to_subscribers, in order
    nextUid,    \* next IMAP uid to hand out
    pc,         \* poll_imap: "sleep" or "polling"
    todo,       \* check_all_lists_for_messages: lists still to visit in this cycle
    cur,        \* list whose mailbox is open (0: none)
    fetched,    \* messages of the open mailbox still to process in this cycle
    vin,        \* input of one call of the function under check (pure-function checks)
    vout,       \* its result
    smtp,       \* SMTP sendmail calls made so far, in order
    sentFolder, \* messages appended to the IMAP Sent folder, in order
    log,        \* what check_all_lists_for_messages has logged in the running cycle
    workers,    \* worker id -> position of a worker in the loop body (step by step)
    procs       \* process id -> a running castmail2list process and its poll thread

vars == <<lists, subs, emailIn, inbox, moved, sendCalls, nextUid, pc, todo, cur,
          fetched, vin, vout, smtp, sentFolder, log, workers, procs>>

(***************************************************************************)
(* Bounds                                                                  *)
(***************************************************************************)
MaxMsgs == 3        \* messages delivered to the mailboxes in one behaviour
MaxLocal == 3       \* characters in the local part of a bounced recipient's address

(***************************************************************************)
(* Python string primitives                                                *)
(***************************************************************************)
None == <<"<None>">>

LowerCh(c) ==
    CASE c = "A" -> "a"
      [] c = "L" -> "l"
      [] c = "M" -> "m"
      [] c = "X" -> "x"
      [] c = "P" -> "p"
      [] OTHER -> c

Lower(s) == [i \in 1..Len(s) |-> LowerCh(s[i])]

\* first index at which sub occurs in s, 0 when it does not (sub is never empty)
Find(s, sub) ==
    LET hits == {i \in 1..(Len(s) - Len(sub) + 1) : SubSeq(s, i, i + Len(sub) - 1) = sub}
    IN  IF hits = {} THEN 0 ELSE CHOOSE i \in hits : \A j \in hits : i <= j

Contains(s, sub) == Find(s, sub) # 0

\* s.split(sep, 1): the part before and the part after the first sep
SplitHead(s, sep) == SubSeq(s, 1, Find(s, sep) - 1)
SplitTail(s, sep) == SubSeq(s, Find(s, sep) + Len(sep), Len(s))

RECURSIVE Replace(_, _, _)
Replace(s, old, new) ==
    IF ~Contains(s, old) THEN s
    ELSE SplitHead(s, old) \o new \o Replace(SplitTail(s, old), old, new)

RECURSIVE Join(_, _)
Join(sep, parts) ==
    IF parts = <<>> THEN <<>>
    ELSE IF Len(parts) = 1 THEN parts[1]
    ELSE parts[1] \o sep \o Join(sep, Tail(parts))

InSeq(x, seq) == \E i \in 1..Len(seq) : seq[i] = x

At == <<"@">>
Plus == <<"+">>
BounceMarker == <<"+", "b", "o", "u", "n", "c", "e", "s", "-", "-">>
PlusToken == <<"-", "-", "-", "p", "l", "u", "s", "-", "-", "-">>

(***************************************************************************)
(* utils.py: address helpers                                               *)
(***************************************************************************)
\* "local_part, domain_part = email.split('@', 1)" raises ValueError without an '@'
SplitRaises(email) == ~Contains(email, At)

create_bounce_address(ml_address, recipient) ==
    SplitHead(ml_address, At) \o BounceMarker
        \o Replace(Replace(recipient, At, <<"=">>), Plus, PlusToken)
        \o At \o SplitTail(ml_address, At)

parse_bounce_address(bounce_address) ==
    IF SplitRaises(bounce_address) THEN None
    ELSE LET local_part == SplitHead(bounce_address, At) IN
         IF ~Contains(local_part, BounceMarker) THEN None
         ELSE Replace(Replace(SplitTail(local_part, BounceMarker), <<"=">>, At),
                      PlusToken, Plus)

get_plus_suffix(email) ==
    LET local_part == SplitHead(email, At) IN
    IF Contains(local_part, Plus) THEN SplitTail(local_part, Plus) ELSE None

remove_plus_suffix(email) ==
    LET local_part == SplitHead(email, At)
        domain_part == SplitTail(email, At)
    IN  (IF Contains(local_part, Plus) THEN SplitHead(local_part, Plus) ELSE local_part)
            \o At \o domain_part

is_expanded_address_the_mailing_list(to_address, list_address) ==
    LET to_local_part == SplitHead(to_address, At)
        to_domain_part == SplitTail(to_address, At)
        list_local_part == SplitHead(list_address, At)
        list_domain_part == SplitTail(list_address, At)
        to_local_part_no_suffix ==
            Lower(IF Contains(to_local_part, Plus) THEN SplitHead(to_local_part, Plus)
                  ELSE to_local_part)
    IN  IF Lower(to_domain_part) # Lower(list_domain_part) THEN FALSE
        ELSE to_local_part_no_suffix = Lower(list_local_part)

(***************************************************************************)
(* utils.py: recipient resolution                                          *)
(***************************************************************************)
ListIds == DOMAIN lists

\* ml_addresses.get(email): the list with this address, 0 when there is none
ListByAddress(email) ==
    IF \E l \in ListIds : lists[l].address = email
    THEN CHOOSE l \in ListIds : lists[l].address = email
    ELSE 0

\* Subscriber.query.filter_by(list_id=...).all()
DirectSubs(list_id) == SelectSeq(subs, LAMBDA s : s.list_id = list_id)

\* mutant: every direct subscriber is added, also when the email is there already
AddEverySubscriber(dict, direct_subs) == dict \o direct_subs

\* "if sub.email not in subscribers_dict: subscribers_dict[sub.email] = sub"
RECURSIVE AddSubscribers(_, _)
AddSubscribers(dict, direct_subs) ==
    IF direct_subs = <<>> THEN dict
    ELSE AddSubscribers(
            IF \E i \in 1..Len(dict) : dict[i].email = Head(direct_subs).email
            THEN dict ELSE Append(dict, Head(direct_subs)),
            Tail(direct_subs))

RECURSIVE CollectSubscribers(_, _)
RECURSIVE CollectNested(_, _, _)
\* _collect_subscribers(list_obj); st = [visited, dict] is the closure's state, and
\* st.entered lists the calls that got past the visited check, in order
CollectSubscribers(list_id, st) ==
    IF list_id \in st.visited THEN st
    ELSE LET st1 == [st EXCEPT !.visited = @ \cup {list_id},
                               !.entered = Append(@, list_id)] IN
         IF lists[list_id].deleted THEN st1
         ELSE LET direct_subs == DirectSubs(list_id) IN
              CollectNested(direct_subs, 1,
                            [st1 EXCEPT !.dict = AddSubscribers(@, direct_subs)])

CollectNested(direct_subs, i, st) ==
    IF i > Len(direct_subs) THEN st
    ELSE LET nested_list == ListByAddress(direct_subs[i].email) IN
         IF nested_list # 0 /\ nested_list \notin st.visited
         THEN CollectNested(direct_subs, i + 1, CollectSubscribers(nested_list, st))
         ELSE CollectNested(direct_subs, i + 1, st)

\* "_collect_subscribers(ml)" on the fresh visited_list_ids and subscribers_dict
CollectFrom(list_id) ==
    CollectSubscribers(list_id, [visited |-> {}, dict |-> <<>>, entered |-> <<>>])

\* mutant: the list addresses are not removed from the result
get_list_subscribers_with_lists(list_id) == CollectFrom(list_id).dict

get_list_subscribers(list_id) ==
    LET st == CollectFrom(list_id)
        ml_addresses == {lists[l].address : l \in ListIds}
    IN  SelectSeq(st.dict, LAMBDA sub : sub.email \notin ml_addresses)

(***************************************************************************)
(* imap_worker.py: checks on one inbound message                           *)
(* A message is [uid, mid, from_, to, to_values, xdomain, flufl]:          *)
(*   from_     msg.from_values.email, None when there is no From header    *)
(*   to        msg.to, to_values: the emails of msg.to_values              *)
(*   xdomain   the values of the X-CastMail2List-Domain header, <<>> when  *)
(*             the header is absent                                        *)
(*   flufl     what flufl.bounce.scan_message finds in the message         *)
(***************************************************************************)
Truthy(str) == str # None /\ str # <<>>

RECURSIVE BounceInTo(_, _)
BounceInTo(to, i) ==
    IF i > Len(to) THEN <<>>
    ELSE IF Truthy(parse_bounce_address(to[i])) THEN parse_bounce_address(to[i])
    ELSE BounceInTo(to, i + 1)

\* mutant: the heuristic scan is consulted before the To addresses
detect_bounce_scan_first(msg) ==
    IF msg.flufl # <<>> THEN Join(<<",", " ">>, msg.flufl)
    ELSE IF BounceInTo(msg.to, 1) # <<>> THEN BounceInTo(msg.to, 1)
    ELSE <<>>

detect_bounce(msg) ==
    IF BounceInTo(msg.to, 1) # <<>> THEN BounceInTo(msg.to, 1)
    ELSE IF msg.flufl # <<>> THEN Join(<<",", " ">>, msg.flufl)
    ELSE <<>>

\* [kind |-> "pass", addr] for the To address that authenticates, "none" when no
\* address does, "raise" when a To address without '@' is reached first
RECURSIVE AuthScan(_, _, _, _)
AuthScan(to, i, list_address, sender_auth_passwords) ==
    IF i > Len(to) THEN [kind |-> "none", addr |-> <<>>]
    ELSE IF SplitRaises(to[i]) \/ SplitRaises(list_address)
         THEN [kind |-> "raise", addr |-> <<>>]
    ELSE IF /\ is_expanded_address_the_mailing_list(to[i], list_address)
            /\ InSeq(get_plus_suffix(to[i]), sender_auth_passwords)
         THEN [kind |-> "pass", addr |-> to[i]]
    ELSE AuthScan(to, i + 1, list_address, sender_auth_passwords)

validate_email_sender_authentication(msg, ml, sender_auth_passwords) ==
    AuthScan(msg.to, 1, ml.address, sender_auth_passwords)

remove_password_in_to_address(msg, old_to, new_to) ==
    [msg EXCEPT
        !.to = [i \in 1..Len(msg.to) |-> IF old_to # <<>> THEN new_to ELSE msg.to[i]],
        !.to_values = [i \in 1..Len(msg.to_values) |->
                          IF msg.to_values[i] = old_to THEN new_to ELSE msg.to_values[i]]]

\* "app_domain in x_domain_headers": membership in the tuple of header values, or the
\* substring test against the default "" when the header is absent
DomainInHeaders(app_domain, xdomain) ==
    IF xdomain = <<>> THEN app_domain = <<>> ELSE InSeq(app_domain, xdomain)

Verdict(status, error_info, msg) ==
    [raised |-> FALSE, status |-> status, error_info |-> error_info, msg |-> msg]

BroadcastSenderRejected(msg, ml) ==
    /\ ml.mode = "broadcast"
    /\ ml.allowed_senders # <<>>
    /\ (msg.from_ = None \/ ~InSeq(msg.from_, ml.allowed_senders))

GroupSenderRejected(msg, ml) ==
    LET subscribers == get_list_subscribers(ml.id) IN
    /\ ml.mode = "group"
    /\ ml.only_subscribers_send
    /\ subscribers # <<>>
    /\ (msg.from_ = None \/ \A i \in 1..Len(subscribers) : subscribers[i].email # msg.from_)

\* mutant: the allowed_senders check runs before bounce detection
validate_senders_before_bounce(msg, ml, app_domain) ==
    IF BroadcastSenderRejected(msg, ml)
    THEN Verdict("sender-not-allowed", {}, msg)
    ELSE IF detect_bounce(msg) # <<>>
    THEN Verdict("bounce-msg", {<<"bounced_recipients", detect_bounce(msg)>>}, msg)
    ELSE LET auth == IF ml.mode = "broadcast" /\ ml.sender_auth # <<>>
                     THEN validate_email_sender_authentication(msg, ml, ml.sender_auth)
                     ELSE [kind |-> "skip", addr |-> <<>>]
             msg1 == IF auth.kind = "pass"
                     THEN remove_password_in_to_address(msg, auth.addr,
                                                        remove_plus_suffix(auth.addr))
                     ELSE msg
         IN  IF auth.kind = "raise"
             THEN [raised |-> TRUE, status |-> "", error_info |-> {}, msg |-> msg]
             ELSE IF auth.kind = "none"
             THEN Verdict("sender-auth-failed", {}, msg)
             ELSE IF GroupSenderRejected(msg1, ml)
             THEN Verdict("sender-not-allowed", {}, msg1)
             ELSE IF DomainInHeaders(app_domain, msg1.xdomain)
             THEN Verdict("duplicate-from-same-instance", {}, msg1)
             ELSE Verdict("ok", {}, msg1)

validate_email_all_checks(msg, ml, app_domain) ==
    IF detect_bounce(msg) # <<>>
    THEN Verdict("bounce-msg", {<<"bounced_recipients", detect_bounce(msg)>>}, msg)
    ELSE IF BroadcastSenderRejected(msg, ml)
    THEN Verdict("sender-not-allowed", {}, msg)
    ELSE LET auth == IF ml.mode = "broadcast" /\ ml.sender_auth # <<>>
                     THEN validate_email_sender_authentication(msg, ml, ml.sender_auth)
                     ELSE [kind |-> "skip", addr |-> <<>>]
             msg1 == IF auth.kind = "pass"
                     THEN remove_password_in_to_address(msg, auth.addr,
                                                        remove_plus_suffix(auth.addr))
                     ELSE msg
         IN  IF auth.kind = "raise"
             THEN [raised |-> TRUE, status |-> "", error_info |-> {}, msg |-> msg]
             ELSE IF auth.kind = "none"
             THEN Verdict("sender-auth-failed", {}, msg)
             ELSE IF GroupSenderRejected(msg1, ml)
             THEN Verdict("sender-not-allowed", {}, msg1)
             ELSE IF DomainInHeaders(app_domain, msg1.xdomain)
             THEN Verdict("duplicate-from-same-instance", {}, msg1)
             ELSE Verdict("ok", {}, msg1)

(***************************************************************************)
(* imap_worker.py: store_msg_in_db_and_imap                                *)
(***************************************************************************)
TargetFolder(status) ==
    CASE status = "ok" -> "Processed"
      [] status = "bounce-msg" -> "Bounces"
      [] status = "duplicate" -> "Duplicate"
      [] OTHER -> "Denied"

\* the Message-ID header, or a fresh uuid4 when the message has none: a value no row
\* of the table holds (the table only grows)
MessageId(msg) ==
    IF msg.mid = <<>> THEN <<"u", ToString(msg.uid), ToString(Len(emailIn))>> ELSE msg.mid

\* mutant: the table has no uniqueness constraint
NoIntegrityError(message_id) == FALSE

\* models.EmailIn: message_id is declared unique=True, id is the primary key
IntegrityError(message_id) == \E i \in 1..Len(emailIn) : emailIn[i].message_id = message_id

NewRow(ml, msg, status, error_info) ==
    [list_id |-> ml.id, message_id |-> MessageId(msg), from_addr |-> msg.from_,
     status |-> status, error_info |-> error_info]

\* mutant: the rollback branch forgets to redirect the message to Duplicate
StoreFolderKeepsTarget(msg, status) == TargetFolder(status)

\* the folder the message is moved to: commit, or rollback on IntegrityError
StoreFolder(msg, status) ==
    IF IntegrityError(MessageId(msg)) THEN "Duplicate" ELSE TargetFolder(status)

\* "return target_folder != app.config['IMAP_FOLDER_DUPLICATE']"
NoDuplicate(msg, status) == StoreFolder(msg, status) # "Duplicate"

\* mutant: "and" for "or" in the skip condition
ShouldSendUnlessBoth(status, no_duplicate) == ~(status # "ok" /\ ~no_duplicate)

\* "if status != 'ok' or not no_duplicate: continue", else send_msg_to_subscribers
ShouldSend(status, no_duplicate) == ~(status # "ok" \/ ~no_duplicate)

\* mutant: the move leaves the message in INBOX
KeepUid(box, uid) == box

RemoveUid(box, uid) == SelectSeq(box, LAMBDA m : m.uid # uid)

(***************************************************************************)
(* mailer.py: the composer and the list-send                               *)
(* A Mail is [ml, msg, message_id, composed, from_header, reply_to,        *)
(* x_mailfrom_header, original_mid]; composed is the header list of        *)
(* composed_msg, in the order the headers are set.  The list record ml     *)
(* carries name, from_addr and avoid_duplicates next to the fields above;  *)
(* the message carries cc next to to.                                      *)
(***************************************************************************)
Via == <<" ", "v", "i", "a", " ">>
Mailer == <<"C", "a", "s", "t", "M", "a", "i", "l", "2", "L", "i", "s", "t">>

SetHeader(mail, name, value) == [mail EXCEPT !.composed = Append(@, <<name, value>>)]

SetHeaderIf(cond, mail, name, value) == IF cond THEN SetHeader(mail, name, value) ELSE mail

\* "tuple(addr for addr in self.msg.to if addr != self.ml.address)", and so for cc
StripListAddress(mail) ==
    IF InSeq(mail.ml.address, mail.msg.to) \/ InSeq(mail.ml.address, mail.msg.cc)
    THEN [mail EXCEPT
            !.msg.to = SelectSeq(@, LAMBDA addr : addr # mail.ml.address),
            !.msg.cc = SelectSeq(@, LAMBDA addr : addr # mail.ml.address)]
    ELSE mail

\* the headers set on composed_msg once From and Reply-To are decided
CommonHeaders(mail) ==
    LET m0 == StripListAddress(mail)
        m1 == SetHeader(m0, "From", m0.from_header)
        m2 == SetHeaderIf(m1.msg.cc # <<>>, m1, "Cc", Join(<<",", " ">>, m1.msg.cc))
        m3 == SetHeader(m2, "Message-ID", m2.message_id)
        m4 == SetHeader(m3, "Sender", m3.ml.address)
        m5 == SetHeader(m4, "List-Id", <<"<">> \o Replace(m4.ml.address, At, <<".">>) \o <<">">>)
        m6 == SetHeader(m5, "X-Mailer", Mailer)
        m7 == SetHeaderIf(m6.x_mailfrom_header # <<>>, m6, "X-MailFrom", m6.x_mailfrom_header)
        m8 == SetHeader(m7, "Precedence", <<"l", "i", "s", "t">>)
        m9 == SetHeader(m8, "Original-Message-ID", m8.original_mid)
        m10 == SetHeader(m9, "In-Reply-To", m9.original_mid)
        m11 == SetHeader(m10, "References", m10.original_mid)
    IN  SetHeaderIf(m11.reply_to # <<>>, m11, "Reply-To", m11.reply_to)

prepare_common_headers(mail) ==
    IF mail.ml.mode = "broadcast"
    THEN CommonHeaders([mail EXCEPT
            !.from_header = IF mail.ml.from_addr # <<>> THEN mail.ml.from_addr
                            ELSE mail.ml.address,
            !.reply_to = <<>>])
    ELSE IF mail.ml.mode = "group"
    THEN IF mail.msg.from_ = None THEN mail
         ELSE CommonHeaders([mail EXCEPT
                !.from_header = mail.msg.from_ \o Via \o mail.ml.name
                                    \o <<" ", "<">> \o mail.ml.address \o <<">">>,
                !.reply_to = mail.ml.address,
                !.x_mailfrom_header = mail.msg.from_])
    ELSE mail

\* Mail(app, ml, msg, message_id)
Mail(ml, msg, message_id) ==
    prepare_common_headers(
        [ml |-> ml, msg |-> msg, message_id |-> message_id, composed |-> <<>>,
         from_header |-> <<>>, reply_to |-> <<>>, x_mailfrom_header |-> <<>>,
         original_mid |-> msg.mid])

\* mail.send_email_to_recipient(recipient): [ret, msg_to, calls]; msg_to is self.msg.to
\* after the call, smtp_ok says whether the SMTP session goes through (a failure is
\* caught and logged)
send_email_to_recipient(mail, recipient, smtp_ok) ==
    LET to == IF InSeq(recipient, mail.msg.to) THEN mail.msg.to
              ELSE Append(mail.msg.to, recipient)
        composed == Append(mail.composed, <<"To", Join(<<",", " ">>, to)>>)
    IN  [ret |-> composed,
         msg_to |-> to,
         calls |-> <<[from_addr |-> create_bounce_address(mail.ml.address, recipient),
                      to_addrs |-> recipient, msg |-> composed, ok |-> smtp_ok]>>]

\* send_msg_to_subscribers(app, msg, ml, mailbox): [ret, smtp, sentFolder]; the function
\* returns right after it has looked up the subscribers
send_msg_to_subscribers(ml, msg, smtp0, sentFolder0) ==
    [ret |-> None, smtp |-> smtp0, sentFolder |-> sentFolder0]

(***************************************************************************)
(* The installation: two lists, their subscribers, the instance's domain   *)
(***************************************************************************)
AddrList1 == <<"l", "@", "x">>
AddrList2 == <<"k", "@", "x">>
AddrAdmin == <<"a", "@", "x">>
AddrAdminUpper == <<"A", "@", "X">>
AddrMember == <<"m", "@", "x">>
AddrMemberUpper == <<"M", "@", "x">>
AddrOther == <<"n", "@", "y">>
AddrStranger == <<"s", "@", "x">>
AddrBounced == <<"b", "@", "y">>
Secret == <<"p">>
ToSecret == <<"l", "+", "p", "@", "x">>
ToSecretUpper == <<"L", "+", "p", "@", "X">>
ToWrongSecret == <<"l", "+", "q", "@", "x">>
ToBounce == create_bounce_address(AddrList1, AddrBounced)
ToNoAt == <<>>
ToBounceOther == create_bounce_address(AddrList1, AddrOther)
ToBounceNobody == <<"l">> \o BounceMarker \o <<"@", "x">>
AppDomain == <<"d">>
OtherDomain == <<"e">>
Mids == {<<"1">>, <<"2">>}

MkList(id, address, mode, allowed_senders, sender_auth, only_subscribers_send, deleted) ==
    [id |-> id, address |-> address, mode |-> mode, allowed_senders |-> allowed_senders,
     sender_auth |-> sender_auth, only_subscribers_send |-> only_subscribers_send,
     deleted |-> deleted]

OpenList2 == MkList(2, AddrList2, "broadcast", <<>>, <<>>, FALSE, FALSE)

\* list 1 as the management UI may have configured it
Configs ==
    { MkList(1, AddrList1, mode, allowed, auth, only, FALSE) :
        mode \in {"broadcast", "group"}, allowed \in {<<>>, <<AddrAdmin>>},
        auth \in {<<>>, <<Secret>>}, only \in BOOLEAN }

Sub(list_id, email) == [list_id |-> list_id, email |-> email]

\* list 1 has a member and list 2 as subscribers; list 2 has one subscriber
NestedSubs == <<Sub(1, AddrMember), Sub(1, AddrList2), Sub(2, AddrOther)>>

SubsChoices ==
    { <<>>, <<Sub(1, AddrMember)>>, <<Sub(1, AddrList2), Sub(2, AddrMember)>>, NestedSubs }

MkMsg(uid, mid, from_, to, xdomain, flufl) ==
    [uid |-> uid, mid |-> mid, from_ |-> from_, to |-> to, to_values |-> to,
     xdomain |-> xdomain, flufl |-> flufl]

\* what arrives in the mailboxes: [mid, from_, to, xdomain, flufl]
Arrival(mid, from_, to, xdomain, flufl) ==
    [mid |-> mid, from_ |-> from_, to |-> to, xdomain |-> xdomain, flufl |-> flufl]

\* list 1 gets posts from the admin, from a password holder and from a member, a
\* bounce, a copy sent by this instance and a message with an unparsable To address;
\* list 2 gets the post that is cross-posted to list 1
Arrivals(l) ==
    IF l = 1
    THEN { Arrival(<<"1">>, AddrAdmin, <<AddrList1>>, <<>>, <<>>),
           Arrival(<<"2">>, AddrAdmin, <<AddrList1>>, <<>>, <<>>),
           Arrival(<<"1">>, AddrStranger, <<ToSecret>>, <<>>, <<>>),
           Arrival(<<"1">>, AddrMember, <<AddrList1>>, <<>>, <<>>),
           Arrival(<<"1">>, AddrStranger, <<ToBounce>>, <<>>, <<>>),
           Arrival(<<"2">>, AddrAdmin, <<AddrList1>>, <<AppDomain>>, <<>>),
           Arrival(<<"2">>, AddrStranger, <<ToNoAt, AddrList1>>, <<>>, <<>>) }
    ELSE { Arrival(<<"1">>, AddrStranger, <<AddrList2>>, <<>>, <<>>) }

(***************************************************************************)
(* State machine: mail arrival and the poll loop                           *)
(***************************************************************************)
PollIdle ==
    /\ emailIn = <<>>
    /\ moved = <<>>
    /\ sendCalls = <<>>
    /\ nextUid = 1
    /\ pc = "sleep"
    /\ todo = <<>>
    /\ cur = 0
    /\ fetched = <<>>
    /\ log = <<>>
    /\ workers = <<>>
    /\ procs = <<>>

\* the configurations of list 1 the poll loop is run with: a broadcast list with
\* allowed senders, a broadcast list with a sender password, a members-only group list
PolledConfigs ==
    { MkList(1, AddrList1, "broadcast", <<AddrAdmin>>, <<>>, FALSE, FALSE),
      MkList(1, AddrList1, "broadcast", <<>>, <<Secret>>, FALSE, FALSE),
      MkList(1, AddrList1, "group", <<>>, <<>>, TRUE, FALSE) }

Init ==
    /\ \E c \in PolledConfigs : lists = [l \in {1, 2} |-> IF l = 1 THEN c ELSE OpenList2]
    /\ subs = NestedSubs
    /\ inbox = [l \in {1, 2} |-> <<>>]
    /\ PollIdle
    /\ vin = <<>>
    /\ vout = <<>>
    /\ smtp = <<>>
    /\ sentFolder = <<>>

\* a mail server delivers a message into a list's INBOX
Deliver(l, a) ==
    /\ nextUid <= MaxMsgs
    /\ inbox' = [inbox EXCEPT
                    ![l] = Append(@, MkMsg(nextUid, a.mid, a.from_, a.to, a.xdomain, a.flufl))]
    /\ nextUid' = nextUid + 1
    /\ UNCHANGED <<workers, procs>>
    /\ UNCHANGED <<lists, subs, emailIn, moved, sendCalls, pc, todo, cur, fetched, vin, vout,
                   smtp, sentFolder, log>>

\* MailingList.query.filter_by(deleted=False).all(), in primary-key order
RECURSIVE ActiveLists(_)
ActiveLists(l) ==
    IF l \notin ListIds THEN <<>>
    ELSE (IF lists[l].deleted THEN <<>> ELSE <<l>>) \o ActiveLists(l + 1)

\* poll_imap wakes up and check_all_lists_for_messages queries the lists
StartCycle ==
    /\ pc = "sleep"
    /\ pc' = "polling"
    /\ todo' = ActiveLists(1)
    /\ UNCHANGED <<workers, procs>>
    /\ UNCHANGED <<lists, subs, emailIn, inbox, moved, sendCalls, nextUid, cur, fetched,
                   vin, vout, smtp, sentFolder, log>>

\* MailBox(...).login(...) succeeds: folders exist, INBOX is selected, fetch() lists it
LoginOk ==
    /\ pc = "polling" /\ cur = 0 /\ todo # <<>>
    /\ cur' = Head(todo)
    /\ todo' = Tail(todo)
    /\ fetched' = inbox[Head(todo)]
    /\ log' = Append(log, <<Head(todo), "polling">>)
    /\ UNCHANGED <<workers, procs>>
    /\ UNCHANGED <<lists, subs, emailIn, inbox, moved, sendCalls, nextUid, pc, vin, vout,
                   smtp, sentFolder>>

\* mutant: the exception leaves the for loop over the lists
AbortAfterFailure(rest) == <<>>

\* the except clauses are inside the for loop: it goes on with the lists that remain
RemainingAfterFailure(rest) == rest

\* MailboxLoginError: logged, the next list is polled
LoginFail ==
    /\ pc = "polling" /\ cur = 0 /\ todo # <<>>
    /\ todo' = RemainingAfterFailure(Tail(todo))
    /\ log' = log \o << <<Head(todo), "polling">>, <<Head(todo), "login-failed">> >>
    /\ UNCHANGED <<workers, procs>>
    /\ UNCHANGED <<lists, subs, emailIn, inbox, moved, sendCalls, nextUid, pc, cur, fetched,
                   vin, vout, smtp, sentFolder>>

\* send_msg_to_subscribers(app, msg, ml, mailbox)
SendCall(ml, msg) ==
    [list_id |-> ml.id, uid |-> msg.uid, mid |-> MessageId(msg), to |-> msg.to]

\* one pass of the loop body over a fetched message
ProcessMsg ==
    /\ pc = "polling" /\ cur # 0 /\ fetched # <<>>
    /\ LET ml == lists[cur]
           msg == Head(fetched)
           v == validate_email_all_checks(msg, ml, AppDomain)
           no_duplicate == NoDuplicate(msg, v.status)
       IN  IF v.raised
           THEN \* the exception leaves the loop and the mailbox: "Error processing list"
                /\ cur' = 0
                /\ fetched' = <<>>
                /\ todo' = RemainingAfterFailure(todo)
                /\ log' = Append(log, <<cur, "error">>)
                /\ UNCHANGED <<emailIn, inbox, moved, sendCalls, smtp, sentFolder>>
           ELSE /\ emailIn' = IF IntegrityError(MessageId(msg)) THEN emailIn
                              ELSE Append(emailIn, NewRow(ml, msg, v.status, v.error_info))
                /\ inbox' = [inbox EXCEPT ![cur] = RemoveUid(@, msg.uid)]
                /\ moved' = Append(moved,
                        [list_id |-> cur, uid |-> msg.uid, mid |-> MessageId(msg),
                         status |-> v.status, error_info |-> v.error_info,
                         bounce |-> detect_bounce(msg),
                         stored |-> ~IntegrityError(MessageId(msg)),
                         seen |-> TRUE, folder |-> StoreFolder(msg, v.status)])
                /\ sendCalls' = IF ShouldSend(v.status, no_duplicate)
                                THEN Append(sendCalls, SendCall(ml, v.msg))
                                ELSE sendCalls
                /\ smtp' = IF ShouldSend(v.status, no_duplicate)
                           THEN send_msg_to_subscribers(ml, v.msg, smtp, sentFolder).smtp
                           ELSE smtp
                /\ sentFolder' =
                        IF ShouldSend(v.status, no_duplicate)
                        THEN send_msg_to_subscribers(ml, v.msg, smtp, sentFolder).sentFolder
                        ELSE sentFolder
                /\ fetched' = Tail(fetched)
                /\ UNCHANGED <<cur, todo, log>>
    /\ UNCHANGED <<workers, procs>>
    /\ UNCHANGED <<lists, subs, nextUid, pc, vin, vout>>

\* the fetch loop is exhausted: the mailbox is closed
FinishList ==
    /\ pc = "polling" /\ cur # 0 /\ fetched = <<>>
    /\ cur' = 0
    /\ UNCHANGED <<workers, procs>>
    /\ UNCHANGED <<lists, subs, emailIn, inbox, moved, sendCalls, nextUid, pc, todo, fetched,
                   vin, vout, smtp, sentFolder, log>>

\* every list was visited: poll_imap sleeps for POLL_INTERVAL_SECONDS
EndCycle ==
    /\ pc = "polling" /\ cur = 0 /\ todo = <<>>
    /\ pc' = "sleep"
    /\ log' = <<>>
    /\ UNCHANGED <<workers, procs>>
    /\ UNCHANGED <<lists, subs, emailIn, inbox, moved, sendCalls, nextUid, todo, cur, fetched,
                   vin, vout, smtp, sentFolder>>

Next ==
    \/ \E l \in {1, 2} : \E a \in Arrivals(l) : Deliver(l, a)
    \/ StartCycle
    \/ LoginOk
    \/ LoginFail
    \/ ProcessMsg
    \/ FinishList
    \/ EndCycle

Spec == Init /\ [][Next]_vars

(***************************************************************************)
(* validate_email_all_checks as a function of its inputs: every            *)
(* configuration of list 1, every subscriber table, every message below    *)
(***************************************************************************)
\* delivery status notifications: bounce addresses in To, first or second, one that
\* names nobody, and what the heuristic scan finds in the body
BounceMsgs ==
    { MkMsg(1, <<"1">>, from_, to, <<>>, flufl) :
        from_ \in {AddrAdmin, AddrStranger},
        to \in {<<ToBounce, ToBounceOther>>, <<AddrStranger, ToBounceOther>>,
                <<ToBounceNobody>>, <<ToBounceNobody, ToBounce>>, <<AddrList1>>},
        flufl \in {<<>>, <<AddrBounced>>, <<AddrOther, AddrBounced>>} }

CheckedMsgs ==
    { MkMsg(1, <<"1">>, from_, to, xdomain, flufl) :
        from_ \in {None, AddrAdmin, AddrAdminUpper, AddrMember, AddrMemberUpper, AddrStranger},
        to \in {<<AddrList1>>, <<ToSecret>>, <<ToWrongSecret>>, <<ToSecretUpper>>,
                <<AddrStranger, ToSecret>>, <<ToSecret, ToSecretUpper>>, <<ToBounce>>,
                <<ToNoAt, AddrList1>>},
        xdomain \in {<<>>, <<AppDomain>>, <<OtherDomain>>},
        flufl \in {<<>>, <<AddrBounced>>} }
    \cup BounceMsgs

InitChecks ==
    /\ \E c \in Configs : lists = [l \in {1, 2} |-> IF l = 1 THEN c ELSE OpenList2]
    /\ subs \in SubsChoices
    /\ inbox = [l \in {1, 2} |-> <<>>]
    /\ PollIdle
    /\ \E msg \in CheckedMsgs : \E app_domain \in {AppDomain, <<>>} :
            vin = <<[msg |-> msg, app_domain |-> app_domain]>>
    /\ vout = <<>>
    /\ smtp = <<>>
    /\ sentFolder = <<>>

\* one call validate_email_all_checks(msg, ml, app_domain) for list 1
ApplyChecks ==
    /\ vin # <<>> /\ vout = <<>>
    /\ vout' = <<validate_email_all_checks(vin[1].msg, lists[1], vin[1].app_domain)>>
    /\ UNCHANGED <<workers, procs>>
    /\ UNCHANGED <<lists, subs, emailIn, inbox, moved, sendCalls, nextUid, pc, todo, cur,
                   fetched, vin, smtp, sentFolder, log>>

NextChecks == ApplyChecks

SpecChecks == InitChecks /\ [][NextChecks]_vars

(***************************************************************************)
(* The composer and the list-send as functions of their inputs             *)
(***************************************************************************)
ListName == <<"L">>
NewMessageId == <<"9">>

MailLists ==
    { [name |-> ListName, from_addr |-> from_addr, avoid_duplicates |-> avoid]
        @@ MkList(1, AddrList1, mode, <<>>, <<>>, FALSE, FALSE) :
        mode \in {"broadcast", "group"}, from_addr \in {<<>>, AddrAdmin}, avoid \in BOOLEAN }

MailMsgs ==
    { [cc |-> cc] @@ MkMsg(1, <<"1">>, from_, to, <<>>, <<>>) :
        from_ \in {None, AddrStranger},
        to \in {<<AddrList1>>, <<AddrList1, AddrMember>>, <<AddrMember>>},
        cc \in {<<>>, <<AddrMember>>, <<AddrList1>>} }

InitMail ==
    /\ lists = [l \in {1, 2} |->
                    IF l = 1 THEN MkList(1, AddrList1, "broadcast", <<>>, <<>>, FALSE, FALSE)
                    ELSE OpenList2]
    /\ subs = NestedSubs
    /\ inbox = [l \in {1, 2} |-> <<>>]
    /\ PollIdle
    /\ \E ml \in MailLists : \E msg \in MailMsgs :
       \E recipient \in {AddrMember, AddrOther} : \E smtp_ok \in BOOLEAN :
            vin = <<[ml |-> ml, msg |-> msg, recipient |-> recipient, smtp_ok |-> smtp_ok]>>
    /\ vout = <<>>
    /\ smtp = <<>>
    /\ sentFolder = <<>>

\* the outcome of mail.send_email_to_recipient(recipient) as the next state
Recorded(mail, r) ==
    /\ vout' = <<[op |-> "send_email_to_recipient", ret |-> r.ret, mail |-> mail,
                  msg_to |-> r.msg_to]>>
    /\ smtp' = smtp \o r.calls

SendRecorded(mail) ==
    Recorded(mail, send_email_to_recipient(mail, vin[1].recipient, vin[1].smtp_ok))

\* Mail(app, ml, msg, message_id).send_email_to_recipient(recipient)
ApplySendToRecipient ==
    /\ vin # <<>> /\ vout = <<>>
    /\ SendRecorded(Mail(vin[1].ml, vin[1].msg, NewMessageId))
    /\ UNCHANGED <<workers, procs>>
    /\ UNCHANGED <<lists, subs, emailIn, inbox, moved, sendCalls, nextUid, pc, todo, cur,
                   fetched, vin, sentFolder, log>>

\* send_msg_to_subscribers(app, msg, ml, mailbox)
ApplySendToSubscribers ==
    /\ vin # <<>> /\ vout = <<>>
    /\ LET r == send_msg_to_subscribers(vin[1].ml, vin[1].msg, smtp, sentFolder)
       IN  /\ vout' = <<[op |-> "send_msg_to_subscribers", ret |-> r.ret]>>
           /\ smtp' = r.smtp
           /\ sentFolder' = r.sentFolder
    /\ UNCHANGED <<workers, procs>>
    /\ UNCHANGED <<lists, subs, emailIn, inbox, moved, sendCalls, nextUid, pc, todo, cur,
                   fetched, vin, log>>

NextMail == ApplySendToRecipient \/ ApplySendToSubscribers

SpecMail == InitMail /\ [][NextMail]_vars

(***************************************************************************)
(* get_list_subscribers as a function of the tables: three lists, each     *)
(* deleted or not, each subscribed to by persons and by lists (itself      *)
(* included)                                                               *)
(***************************************************************************)
AddrList3 == <<"j", "@", "x">>
GraphIds == {1, 2, 3}
GraphAddress(l) == CASE l = 1 -> AddrList1 [] l = 2 -> AddrList2 [] OTHER -> AddrList3

PersonChoices == {<<>>, <<AddrMember>>, <<AddrMember, AddrOther>>}

\* the addresses of the lists in S, in id order
RECURSIVE AddressesOf(_, _)
AddressesOf(S, l) ==
    IF l \notin GraphIds THEN <<>>
    ELSE (IF l \in S THEN <<GraphAddress(l)>> ELSE <<>>) \o AddressesOf(S, l + 1)

\* the subscriber rows of list l: its persons, then the lists subscribed to it
RowsOf(l, persons, nested) ==
    [i \in 1..(Len(persons) + Len(AddressesOf(nested, 1))) |->
        Sub(l, (persons \o AddressesOf(nested, 1))[i])]

Reverse(seq) == [i \in 1..Len(seq) |-> seq[Len(seq) + 1 - i]]

InitResolve ==
    /\ \E deleted \in [GraphIds -> BOOLEAN] :
            lists = [l \in GraphIds |->
                        MkList(l, GraphAddress(l), "broadcast", <<>>, <<>>, FALSE, deleted[l])]
    /\ \E persons \in [GraphIds -> PersonChoices] :
       \E nested \in [GraphIds -> SUBSET GraphIds] : \E rev \in BOOLEAN :
            LET rows == RowsOf(1, persons[1], nested[1]) \o RowsOf(2, persons[2], nested[2])
                            \o RowsOf(3, persons[3], nested[3])
            IN  subs = IF rev THEN Reverse(rows) ELSE rows
    /\ inbox = [l \in {1, 2} |-> <<>>]
    /\ PollIdle
    /\ vin = <<[list_id |-> 1]>>
    /\ vout = <<>>
    /\ smtp = <<>>
    /\ sentFolder = <<>>

\* one call get_list_subscribers(ml)
ApplyResolve ==
    /\ vin # <<>> /\ vout = <<>>
    /\ vout' = <<[result |-> get_list_subscribers(vin[1].list_id),
                  entered |-> CollectFrom(vin[1].list_id).entered]>>
    /\ UNCHANGED <<workers, procs>>
    /\ UNCHANGED <<lists, subs, emailIn, inbox, moved, sendCalls, nextUid, pc, todo, cur,
                   fetched, vin, smtp, sentFolder, log>>

NextResolve == ApplyResolve

SpecResolve == InitResolve /\ [][NextResolve]_vars

(***************************************************************************)
(* The bounce address codec as a function of its inputs: every recipient   *)
(* whose local part is made of letters, '+', '-' and '='                   *)
(***************************************************************************)
LocalChars == {"a", "+", "-", "="}

LocalParts == UNION {[1..n -> LocalChars] : n \in 1..MaxLocal}

InitBounce ==
    /\ lists = [l \in {1, 2} |-> IF l = 1 THEN MkList(1, AddrList1, "broadcast", <<>>, <<>>,
                                                     FALSE, FALSE)
                                 ELSE OpenList2]
    /\ subs = NestedSubs
    /\ inbox = [l \in {1, 2} |-> <<>>]
    /\ PollIdle
    /\ \E ml_address \in {AddrList1, AddrList2} : \E local_part \in LocalParts :
            vin = <<[ml_address |-> ml_address, recipient |-> local_part \o <<"@", "y">>]>>
    /\ vout = <<>>
    /\ smtp = <<>>
    /\ sentFolder = <<>>

\* parse_bounce_address(create_bounce_address(ml_address, recipient))
ApplyBounce ==
    /\ vin # <<>> /\ vout = <<>>
    /\ LET bounce_address == create_bounce_address(vin[1].ml_address, vin[1].recipient)
       IN  vout' = <<[bounce_address |-> bounce_address,
                      parsed |-> parse_bounce_address(bounce_address)]>>
    /\ UNCHANGED <<workers, procs>>
    /\ UNCHANGED <<lists, subs, emailIn, inbox, moved, sendCalls, nextUid, pc, todo, cur,
                   fetched, vin, smtp, sentFolder, log>>

NextBounce == ApplyBounce

SpecBounce == InitBounce /\ [][NextBounce]_vars

(***************************************************************************)
(* Vocabulary of the properties                                            *)
(***************************************************************************)
Handled == {moved[i] : i \in 1..Len(moved)}

\* send_msg_to_subscribers was invoked for the handled message e
SentFor(e) == \E i \in 1..Len(sendCalls) :
                  sendCalls[i].list_id = e.list_id /\ sendCalls[i].uid = e.uid

SendCount(l, mid) ==
    Cardinality({i \in 1..Len(sendCalls) : sendCalls[i].list_id = l /\ sendCalls[i].mid = mid})

OkRows(l, mid) ==
    {i \in 1..Len(emailIn) : /\ emailIn[i].list_id = l
                             /\ emailIn[i].message_id = mid
                             /\ emailIn[i].status = "ok"}

\* positions in moved of the messages with Message-ID mid handled on list l
HandledAt(l, mid) == {i \in 1..Len(moved) : moved[i].list_id = l /\ moved[i].mid = mid}

First(S) == CHOOSE i \in S : \A j \in S : i <= j
Last(S) == CHOOSE i \in S : \A j \in S : j <= i

\* the checked input and the verdict of the checks on it
In == vin[1]
Out == vout[1]
Checked == vout # <<>>
Accepted == ~Out.raised /\ Out.status = "ok"
NonBounce == detect_bounce(In.msg) = <<>>
NoLoopMarker == ~DomainInHeaders(In.app_domain, In.msg.xdomain)

SenderAllowed == In.msg.from_ # None /\ InSeq(In.msg.from_, lists[1].allowed_senders)

\* a To address that matches the list carries a configured sender_auth suffix
HoldsSuffix ==
    \E i \in 1..Len(In.msg.to) :
        /\ ~SplitRaises(In.msg.to[i])
        /\ is_expanded_address_the_mailing_list(In.msg.to[i], lists[1].address)
        /\ InSeq(get_plus_suffix(In.msg.to[i]), lists[1].sender_auth)

SenderSubscribed ==
    /\ In.msg.from_ # None
    /\ \E i \in 1..Len(get_list_subscribers(1)) :
            get_list_subscribers(1)[i].email = In.msg.from_

(***************************************************************************)
(* C1. Idempotence: when exactly two messages with the same Message-ID     *)
(* that pass the checks have been handled on a list, there is exactly one  *)
(* ok row for (Message-ID, list), send_msg_to_subscribers was invoked      *)
(* exactly once for them, and the second one went to Duplicate unsent.     *)
(***************************************************************************)
C1_Idempotence ==
    \A l \in ListIds : \A mid \in Mids :
        LET at == HandledAt(l, mid) IN
        (Cardinality(at) = 2 /\ \A i \in at : moved[i].status = "ok") =>
            /\ Cardinality(OkRows(l, mid)) = 1
            /\ SendCount(l, mid) = 1
            /\ moved[Last(at)].folder = "Duplicate"
            /\ ~SentFor(moved[Last(at)])

(***************************************************************************)
(* C2. send_msg_to_subscribers is invoked for a handled message if and     *)
(* only if the checks said ok and its row was newly stored, at most once;  *)
(* messages with any other status cause no send.                           *)
(***************************************************************************)
C2_SendOnlyForOk ==
    /\ \A e \in Handled : SentFor(e) <=> (e.status = "ok" /\ e.stored)
    /\ \A i \in 1..Len(sendCalls) :
          /\ \E e \in Handled : e.list_id = sendCalls[i].list_id /\ e.uid = sendCalls[i].uid
          /\ \A j \in 1..Len(sendCalls) :
                (sendCalls[j].list_id = sendCalls[i].list_id /\ sendCalls[j].uid = sendCalls[i].uid)
                    => j = i

\* an accepted message was sent, a denied one and a second delivery of it were not
C2_Witness ==
    \E e1, e2, e3 \in Handled :
        /\ e1.status = "ok" /\ e1.stored /\ SentFor(e1)
        /\ e2.status = "ok" /\ ~e2.stored /\ ~SentFor(e2)
        /\ e3.status \notin {"ok", "bounce-msg"} /\ ~SentFor(e3)

(***************************************************************************)
(* C3. Broadcast mode: a non-bounce message (without the loop marker) is   *)
(* accepted if and only if the sender is in allowed_senders, or a To       *)
(* address matching the list carries a sender_auth suffix, or the list     *)
(* has neither configured.                                                 *)
(***************************************************************************)
C3_BroadcastTotality ==
    (Checked /\ lists[1].mode = "broadcast" /\ NonBounce /\ NoLoopMarker /\ ~Out.raised) =>
        (Accepted <=> \/ SenderAllowed
                      \/ HoldsSuffix
                      \/ (lists[1].allowed_senders = <<>> /\ lists[1].sender_auth = <<>>))

(***************************************************************************)
(* C4. Group mode: a non-bounce message (without the loop marker) is       *)
(* accepted if the sender is in allowed_senders, or holds a sender_auth    *)
(* suffix, or only_subscribers_send is off, or the sender is a resolved    *)
(* subscriber; with only_subscribers_send on and none of these it is       *)
(* sender-not-allowed.                                                     *)
(***************************************************************************)
C4_GroupAuthorization ==
    (Checked /\ lists[1].mode = "group" /\ NonBounce /\ NoLoopMarker) =>
        /\ (SenderAllowed \/ HoldsSuffix \/ ~lists[1].only_subscribers_send \/ SenderSubscribed)
                => Accepted
        /\ (lists[1].only_subscribers_send /\ ~SenderAllowed /\ ~HoldsSuffix /\ ~SenderSubscribed)
                => (~Out.raised /\ Out.status = "sender-not-allowed")

(***************************************************************************)
(* C5. A From address that differs only in letter case from an allowed     *)
(* sender (broadcast) or from a subscriber email (members-only group) gets *)
(* the verdict the same address in the stored case gets.                   *)
(***************************************************************************)
LoweredFrom == [In.msg EXCEPT !.from_ = Lower(In.msg.from_)]

C5_CaseInsensitiveSender ==
    (/\ Checked /\ NonBounce /\ In.msg.from_ # None
     /\ \/ /\ lists[1].mode = "broadcast"
           /\ InSeq(Lower(In.msg.from_), lists[1].allowed_senders)
        \/ /\ lists[1].mode = "group" /\ lists[1].only_subscribers_send
           /\ \E i \in 1..Len(get_list_subscribers(1)) :
                    get_list_subscribers(1)[i].email = Lower(In.msg.from_))
    => Out.status = validate_email_all_checks(LoweredFrom, lists[1], In.app_domain).status

(***************************************************************************)
(* C6. A bounce is terminal: a handled message in which detect_bounce      *)
(* finds a bounce has status bounce-msg with the bounced recipients in     *)
(* error_info whatever the list's mode and settings, is stored as          *)
(* bounce-msg, is in the Bounces folder and was not sent.                  *)
(***************************************************************************)
BounceVerdict(e) ==
    /\ e.status = "bounce-msg"
    /\ e.error_info = {<<"bounced_recipients", e.bounce>>}
    /\ ~SentFor(e)

StoredAs(e, status) ==
    \E i \in 1..Len(emailIn) : /\ emailIn[i].list_id = e.list_id
                               /\ emailIn[i].message_id = e.mid
                               /\ emailIn[i].status = status
                               /\ emailIn[i].error_info = e.error_info

C7_LoopGuardBeforeAuthorization ==
    (Checked /\ NonBounce /\ InSeq(In.app_domain, In.msg.xdomain)) =>
        (~Out.raised /\ Out.status = "duplicate-from-same-instance")

(***************************************************************************)
(* C8. Every handled message is flagged Seen, has left INBOX and is in     *)
(* the one folder its final status names: ok Processed, bounce-msg         *)
(* Bounces, duplicate Duplicate, the other three Denied; the final status  *)
(* is duplicate when the insert hit the uniqueness constraint and the      *)
(* status of the checks otherwise.                                         *)
(***************************************************************************)
FinalStatus(e) == IF e.stored THEN e.status ELSE "duplicate"

FolderOfStatus ==
    [ok |-> "Processed"] @@ ("bounce-msg" :> "Bounces") @@ ("duplicate" :> "Duplicate")
        @@ ("sender-not-allowed" :> "Denied") @@ ("sender-auth-failed" :> "Denied")
        @@ ("duplicate-from-same-instance" :> "Denied")

DuplicatePrefix == <<"d", "u", "p", "l", "i", "c", "a", "t", "e", "-">>

C9_DuplicateIsStored ==
    /\ Len(emailIn) = Len(moved)
    /\ \A e \in Handled :
          ~e.stored =>
              \E i \in 1..Len(emailIn) :
                  /\ emailIn[i].status = "duplicate"
                  /\ emailIn[i].list_id = e.list_id
                  /\ Len(emailIn[i].message_id) > Len(DuplicatePrefix)
                  /\ SubSeq(emailIn[i].message_id, 1, Len(DuplicatePrefix)) = DuplicatePrefix

(***************************************************************************)
(* C10. Cross-posting: a message that passes the checks on a list on which *)
(* its Message-ID was not handled before is stored ok and forwarded there, *)
(* whatever was stored for that Message-ID on another list.                *)
(***************************************************************************)
C10_CrossPosting ==
    \A i \in 1..Len(moved) :
        (/\ moved[i].status = "ok"
         /\ \A j \in 1..(i - 1) :
                ~(moved[j].list_id = moved[i].list_id /\ moved[j].mid = moved[i].mid))
        => (moved[i].stored /\ moved[i].folder = "Processed" /\ SentFor(moved[i]))

(***************************************************************************)
(* C11. The sender-authentication secret never reaches subscribers: when a *)
(* message is accepted and a To address matching the list carries a        *)
(* configured sender_auth suffix, in broadcast or in group mode, no entry  *)
(* of msg.to or msg.to_values of the message that goes on to forwarding    *)
(* contains the +suffix token.                                             *)
(***************************************************************************)
CarriesSecret(addr) ==
    \E i \in 1..Len(lists[1].sender_auth) : Contains(addr, Plus \o lists[1].sender_auth[i])

C11_SecretStripped ==
    (Checked /\ Accepted /\ HoldsSuffix) =>
        /\ \A i \in 1..Len(Out.msg.to) : ~CarriesSecret(Out.msg.to[i])
        /\ \A i \in 1..Len(Out.msg.to_values) : ~CarriesSecret(Out.msg.to_values[i])

(***************************************************************************)
(* C12. Loop prevention: every copy the composer builds carries the header *)
(* X-CastMail2List-Domain with this instance's domain (the header the      *)
(* self-loop guard of the inbound checks looks for).                       *)
(***************************************************************************)
Composed == Checked /\ Out.op = "send_email_to_recipient"

C12_LoopMarkerStamped ==
    Composed =>
        \E i \in 1..Len(Out.ret) :
            Out.ret[i] = <<"X-CastMail2List-Domain", AppDomain>>

(***************************************************************************)
(* C13. Recipient resolution terminates and is loop-safe: for every        *)
(* subscription graph, lists subscribed to themselves directly or through  *)
(* other lists included, get_list_subscribers returns, has descended into  *)
(* each list at most once, and returns no subscriber whose email is the    *)
(* address of a configured list.                                           *)
(***************************************************************************)
ListAddresses == {lists[l].address : l \in ListIds}

SubRows == {subs[i] : i \in 1..Len(subs)}

C13_ResolutionLoopSafe ==
    Checked =>
        /\ \A i, j \in 1..Len(Out.entered) : Out.entered[i] = Out.entered[j] => i = j
        /\ \A i \in 1..Len(Out.result) : Out.result[i].email \notin ListAddresses

\* lists 1 and 2 are subscribed to each other and list 1 to itself; both were descended
\* into and a subscriber came out
C13_Witness ==
    /\ Checked
    /\ {Sub(1, AddrList1), Sub(1, AddrList2), Sub(2, AddrList1)} \subseteq SubRows
    /\ Out.entered = <<1, 2>>
    /\ Out.result # <<>>

(***************************************************************************)
(* C14. Recipient resolution result: get_list_subscribers(L) returns       *)
(* exactly the subscribers of the non-deleted lists reachable from L       *)
(* through subscribers of non-deleted lists whose email is a list address, *)
(* one row per email, the row of L itself when L has the email, and no     *)
(* list address; what only a deleted list subscribes is not returned.      *)
(***************************************************************************)
ReachStep(S) ==
    S \cup {ListByAddress(sub.email) :
                sub \in {r \in SubRows : /\ r.list_id \in S
                                         /\ ~lists[r.list_id].deleted
                                         /\ ListByAddress(r.email) # 0}}

RECURSIVE Reach(_)
Reach(S) == IF ReachStep(S) = S THEN S ELSE Reach(ReachStep(S))

ContributingRows(L) == {r \in SubRows : r.list_id \in Reach({L}) /\ ~lists[r.list_id].deleted}

C14_ResolutionResult ==
    Checked =>
        LET rows == ContributingRows(In.list_id)
            result == Out.result
        IN  /\ {result[i].email : i \in 1..Len(result)} = {r.email : r \in rows} \ ListAddresses
            /\ \A i, j \in 1..Len(result) : result[i].email = result[j].email => i = j
            /\ \A i \in 1..Len(result) :
                    /\ result[i] \in rows
                    /\ Sub(In.list_id, result[i].email) \in SubRows
                            => result[i].list_id = In.list_id

\* list 1 nests list 2, which shares a member with it, and the deleted list 3, whose
\* other subscriber is left out
C14_Witness ==
    /\ Checked
    /\ lists[3].deleted /\ ~lists[1].deleted /\ ~lists[2].deleted
    /\ {Sub(1, AddrMember), Sub(1, AddrList2), Sub(1, AddrList3), Sub(2, AddrMember),
        Sub(3, AddrOther)} \subseteq SubRows
    /\ Out.result = <<Sub(1, AddrMember)>>

(***************************************************************************)
(* C18. Bounce address round trip: parse_bounce_address applied to         *)
(* create_bounce_address(list, r) gives r back, for every list address and *)
(* every recipient address r, '+', '-' and '=' in its local part included. *)
(***************************************************************************)
C18_BounceRoundTrip == Checked => Out.parsed = In.recipient

(***************************************************************************)
(* C15. Every accepted message is dispatched: for a handled message with   *)
(* status ok whose row was newly stored, one SMTP send was made to each    *)
(* address of the list's resolved recipient set, none got a second copy,   *)
(* and the message is in Processed.  (No message here names a subscriber   *)
(* in To or Cc, so avoid_duplicates skips nobody.)                         *)
(***************************************************************************)
\* the SMTP calls that carry a copy of the handled message e to the address email
SmtpFor(e, email) ==
    {i \in 1..Len(smtp) :
        /\ smtp[i].to_addrs = email
        /\ \E h \in 1..Len(smtp[i].msg) : smtp[i].msg[h] = <<"Original-Message-ID", e.mid>>
        /\ \E h \in 1..Len(smtp[i].msg) :
                smtp[i].msg[h] = <<"Sender", lists[e.list_id].address>>}

C15_AcceptedIsDispatched ==
    \A e \in Handled :
        (e.status = "ok" /\ e.stored) =>
            /\ e.folder = "Processed"
            /\ \A i \in 1..Len(get_list_subscribers(e.list_id)) :
                    Cardinality(SmtpFor(e, get_list_subscribers(e.list_id)[i].email)) = 1

(***************************************************************************)
(* C16. Per-recipient failure isolation: send_msg_to_subscribers returns   *)
(* (succeeded, failed); a send was attempted for every resolved recipient, *)
(* failed or not; succeeded and failed are disjoint and together are the   *)
(* recipients a send was attempted for.                                    *)
(***************************************************************************)
ListSent == Checked /\ Out.op = "send_msg_to_subscribers"

Attempted == {smtp[i].to_addrs : i \in 1..Len(smtp)}

C16_FailureIsolation ==
    ListSent =>
        /\ Out.ret # None
        /\ \A i \in 1..Len(get_list_subscribers(In.ml.id)) :
                get_list_subscribers(In.ml.id)[i].email \in Attempted
        /\ Out.ret.succeeded \cap Out.ret.failed = {}
        /\ Out.ret.succeeded \cup Out.ret.failed = Attempted

(***************************************************************************)
(* C19. avoid_duplicates: when the list has avoid_duplicates set and the   *)
(* recipient is in the inbound To or Cc (the list address stripped),       *)
(* send_email_to_recipient makes no SMTP call and returns an empty result; *)
(* with avoid_duplicates unset the same recipient gets one copy.           *)
(***************************************************************************)
RecipientInToOrCc ==
    InSeq(In.recipient, Out.mail.msg.to) \/ InSeq(In.recipient, Out.mail.msg.cc)

C19_AvoidDuplicates ==
    (Composed /\ RecipientInToOrCc) =>
        IF In.ml.avoid_duplicates
        THEN smtp = <<>> /\ Out.ret = <<>>
        ELSE Len(smtp) = 1 /\ smtp[1].to_addrs = In.recipient /\ Out.ret # <<>>

(***************************************************************************)
(* C20. Sent-folder archive: for every list-send exactly one composed copy *)
(* is in the list's IMAP Sent folder, flagged Seen, whatever the number of *)
(* recipients.                                                             *)
(***************************************************************************)
SentCopies(call) ==
    {j \in 1..Len(sentFolder) : /\ sentFolder[j].list_id = call.list_id
                                /\ sentFolder[j].mid = call.mid
                                /\ sentFolder[j].seen}

C20_SentFolderArchive ==
    \A i \in 1..Len(sendCalls) : Cardinality(SentCopies(sendCalls[i])) = 1

(***************************************************************************)
(* C17. Per-list failure isolation: whatever login failure or exception a  *)
(* list has met in the running cycle, every active list has been polled or *)
(* is still to be polled in it, the cycle always has a next step, and      *)
(* after the cycle poll_imap can start the next one: no failure of a list  *)
(* ends the poll loop.                                                     *)
(***************************************************************************)
\* the lists the running cycle has logged "Polling" for, in order
PolledLists ==
    LET polled == SelectSeq(log, LAMBDA e : e[2] = "polling")
    IN  [i \in 1..Len(polled) |-> polled[i][1]]

\* the loop body has an outcome, a verdict or a caught exception, for every message
MessagePending == cur # 0 /\ fetched # <<>>

C17_ListFailureIsolation ==
    /\ pc \in {"sleep", "polling"}
    /\ pc = "polling" =>
          /\ PolledLists \o todo = ActiveLists(1)
          /\ \/ ENABLED LoginOk
             \/ ENABLED LoginFail
             \/ MessagePending
             \/ ENABLED FinishList
             \/ ENABLED EndCycle
    /\ pc = "sleep" => ENABLED StartCycle

\* the login to list 1 failed and the same cycle is working on list 2's messages
C17_Witness ==
    /\ pc = "polling"
    /\ \E i \in 1..Len(log) : log[i] = <<1, "login-failed">>
    /\ cur = 2 /\ fetched # <<>>

(***************************************************************************)
(* C28. Only an accepted message makes a later one a duplicate: a handled  *)
(* message that passes the checks, whose Message-ID was recorded before    *)
(* only with statuses other than ok, is not moved to Duplicate and is      *)
(* forwarded.                                                              *)
(***************************************************************************)
\* the messages handled before position i whose record holds the Message-ID of moved[i]
RecordedBefore(i) == {j \in 1..(i - 1) : moved[j].mid = moved[i].mid /\ moved[j].stored}

C28_DuplicateOnlyAfterAccepted ==
    \A i \in 1..Len(moved) :
        (/\ moved[i].status = "ok"
         /\ RecordedBefore(i) # {}
         /\ \A j \in RecordedBefore(i) : moved[j].status # "ok")
        => (moved[i].folder # "Duplicate" /\ SentFor(moved[i]))

(***************************************************************************)
(* C29. Suffix stripping touches only the matched address: after the       *)
(* checks have authenticated a message by a To address, that address is    *)
(* replaced by its suffix-stripped form in msg.to and msg.to_values, and   *)
(* every other To address is unchanged and in its place.                   *)
(***************************************************************************)
\* remove_password_in_to_address has run on the checked message
Authenticated ==
    /\ Checked /\ ~Out.raised
    /\ Out.status \in {"ok", "duplicate-from-same-instance"}
    /\ lists[1].mode = "broadcast" /\ lists[1].sender_auth # <<>>

\* the To address that passed sender authentication
PassedTo == validate_email_sender_authentication(In.msg, lists[1], lists[1].sender_auth).addr

OnlyMatchedStripped(before, after) ==
    /\ Len(after) = Len(before)
    /\ \A i \in 1..Len(before) :
          after[i] = IF before[i] = PassedTo THEN remove_plus_suffix(PassedTo) ELSE before[i]

C29_OnlyMatchedAddressStripped ==
    Authenticated =>
        /\ OnlyMatchedStripped(In.msg.to, Out.msg.to)
        /\ OnlyMatchedStripped(In.msg.to_values, Out.msg.to_values)

(***************************************************************************)
(* C30. The self-loop guard trips only on the marker: a message without    *)
(* the X-CastMail2List-Domain header is never classified                   *)
(* duplicate-from-same-instance, whatever the configured DOMAIN is, the    *)
(* empty string included; a message with the header is so classified only  *)
(* when one of the header's values equals the configured domain.           *)
(***************************************************************************)
C30_LoopGuardOnlyOnMarker ==
    (Checked /\ ~Out.raised /\ Out.status = "duplicate-from-same-instance") =>
        /\ In.msg.xdomain # <<>>
        /\ InSeq(In.app_domain, In.msg.xdomain)

(***************************************************************************)
(* C24. Bounce detection order, first match wins: when a To address of the *)
(* message decodes to a recipient with parse_bounce_address, the bounce    *)
(* result is the decoding of the first such address, whatever the          *)
(* heuristic scan finds; otherwise it is the scan's recipients joined by   *)
(* ", "; otherwise it is empty.  (An address that decodes to the empty     *)
(* recipient names nobody and counts as not decoding.)                     *)
(***************************************************************************)
\* the positions of the To addresses that decode to a recipient
Decodable(to) == {i \in 1..Len(to) : Truthy(parse_bounce_address(to[i]))}

\* what detect_bounce returned to the checks: the recipients of a bounce-msg verdict
Detected ==
    IF ~Out.raised /\ Out.status = "bounce-msg"
    THEN (CHOOSE p \in Out.error_info : p[1] = "bounced_recipients")[2]
    ELSE <<>>

C24_BounceFirstMatchWins ==
    Checked =>
        Detected = IF Decodable(In.msg.to) # {}
                   THEN parse_bounce_address(In.msg.to[First(Decodable(In.msg.to))])
                   ELSE IF In.msg.flufl # <<>> THEN Join(<<",", " ">>, In.msg.flufl)
                   ELSE <<>>

\* two bounce addresses in To and two recipients found by the scan: the first To
\* address decided
C24_Witness ==
    /\ Checked
    /\ In.msg.to = <<ToBounce, ToBounceOther>>
    /\ In.msg.flufl = <<AddrOther, AddrBounced>>
    /\ Detected = AddrBounced

(***************************************************************************)
(* C23. No cross-recipient header contamination: the To header of the copy *)
(* composed for a recipient is the inbound To addresses without the list   *)
(* address, plus that recipient in broadcast mode; in group mode sending   *)
(* leaves the message's To unchanged and the recipient is addressed by the *)
(* envelope only.                                                          *)
(***************************************************************************)
\* the To header of the composed copy
ToHeader == {Out.ret[i][2] : i \in {j \in 1..Len(Out.ret) : Out.ret[j][1] = "To"}}

\* the inbound To addresses without the list address
InboundTo == SelectSeq(In.msg.to, LAMBDA addr : addr # In.ml.address)

C23_NoHeaderContamination ==
    Composed =>
        IF In.ml.mode = "broadcast"
        THEN ToHeader = {Join(<<",", " ">>,
                              IF InSeq(In.recipient, InboundTo) THEN InboundTo
                              ELSE Append(InboundTo, In.recipient))}
        ELSE /\ Out.msg_to = Out.mail.msg.to
             /\ InboundTo # <<>> => ToHeader = {Join(<<",", " ">>, InboundTo)}

(***************************************************************************)
(* The poll loop on mailboxes that hold messages already, with IMAP, SMTP  *)
(* and the database available (every login succeeds) and the loop          *)
(* scheduled fairly: poll_imap runs a cycle, sleeps and runs the next one  *)
(***************************************************************************)
MaxInbox == 2       \* messages waiting in list 1's INBOX when the loop starts

\* what the mailbox of list l holds in uid order, the first uid being first
RECURSIVE Mailbox(_, _)
Mailbox(arrivals, first) ==
    IF arrivals = <<>> THEN <<>>
    ELSE LET a == Head(arrivals) IN
         <<MkMsg(first, a.mid, a.from_, a.to, a.xdomain, a.flufl)>>
            \o Mailbox(Tail(arrivals), first + 1)

InitDrain ==
    /\ \E c \in PolledConfigs : lists = [l \in {1, 2} |-> IF l = 1 THEN c ELSE OpenList2]
    /\ subs = NestedSubs
    /\ \E n \in 1..MaxInbox : \E first \in [1..n -> Arrivals(1)] :
       \E second \in {<<>>} \cup {<<a>> : a \in Arrivals(2)} :
            /\ inbox = [l \in {1, 2} |-> IF l = 1 THEN Mailbox(first, 1)
                                         ELSE Mailbox(second, n + 1)]
            /\ nextUid = n + Len(second) + 1
    /\ emailIn = <<>> /\ moved = <<>> /\ sendCalls = <<>>
    /\ pc = "sleep" /\ todo = <<>> /\ cur = 0 /\ fetched = <<>> /\ log = <<>>
    /\ vin = <<>> /\ vout = <<>> /\ smtp = <<>> /\ sentFolder = <<>>
    /\ workers = <<>> /\ procs = <<>>

NextDrain ==
    \/ StartCycle
    \/ LoginOk
    \/ ProcessMsg
    \/ FinishList
    \/ EndCycle

\* the thread is never suspended forever: time.sleep returns, IMAP and the database
\* answer, and a fetched message that is waiting is processed (weak fairness of
\* ProcessMsg, which is enabled exactly when a message is pending)
FairPoll ==
    /\ WF_vars(StartCycle)
    /\ WF_vars(LoginOk)
    /\ WF_vars(FinishList)
    /\ WF_vars(EndCycle)
    /\ (<>[]MessagePending) => []<><<ProcessMsg>>_vars

SpecDrain == InitDrain /\ [][NextDrain]_vars /\ FairPoll

(***************************************************************************)
(* C27. Inbox drain: every message in an active list's INBOX is eventually *)
(* flagged Seen and moved out of INBOX, also the messages that follow one  *)
(* whose checks raise an exception.                                        *)
(***************************************************************************)
\* the uids of the messages in the INBOX of list l
Waiting(l) == {inbox[l][i].uid : i \in 1..Len(inbox[l])}

\* the message with this uid was flagged Seen and moved
Drained(uid) == \E e \in Handled : e.uid = uid /\ e.seen

C27_InboxDrain ==
    \A l \in {1, 2} : \A uid \in 1..(MaxInbox + 1) :
        (~lists[l].deleted /\ uid \in Waiting(l)) ~> (uid \notin Waiting(l) /\ Drained(uid))

(***************************************************************************)
(* The loop body of check_all_lists_for_messages step by step: the checks, *)
(* the database commit, the IMAP flag and move, the list-send.  A worker   *)
(* is [pc, cycle, msg, rest, status, error_info, out, message_id, stored,  *)
(* folder]: msg is the message it works on, rest the fetched messages that *)
(* follow, out the message as the checks leave it.  All workers serve      *)
(* list 1.                                                                 *)
(***************************************************************************)
MaxCycles == 3      \* poll cycles a process starts in one behaviour

WorkerIds == {1, 2}

NoMsg == MkMsg(0, <<>>, None, <<>>, <<>>, <<>>)

\* a worker about to run the loop body on the first message of batch, "done" when
\* there is none
WorkerOn(batch, cycle) ==
    [pc |-> IF batch = <<>> THEN "done" ELSE "checks", cycle |-> cycle,
     msg |-> IF batch = <<>> THEN NoMsg ELSE Head(batch),
     rest |-> IF batch = <<>> THEN <<>> ELSE Tail(batch),
     status |-> "", error_info |-> {}, out |-> NoMsg, message_id |-> <<>>,
     stored |-> FALSE, folder |-> ""]

\* status, error_info = validate_email_all_checks(...); an exception leaves the loop
WChecks(w) ==
    /\ w \in DOMAIN workers
    /\ workers[w].pc = "checks"
    /\ LET v == validate_email_all_checks(workers[w].msg, lists[1], AppDomain) IN
       workers' = [workers EXCEPT ![w] =
                      IF v.raised THEN [@ EXCEPT !.pc = "done", !.rest = <<>>]
                      ELSE [@ EXCEPT !.pc = "store", !.status = v.status,
                                     !.error_info = v.error_info, !.out = v.msg]]
    /\ UNCHANGED <<lists, subs, emailIn, inbox, moved, sendCalls, nextUid, pc, todo, cur,
                   fetched, vin, vout, smtp, sentFolder, log, procs>>

\* db.session.add(m); db.session.commit(), or rollback on IntegrityError
WStore(w) ==
    /\ w \in DOMAIN workers
    /\ workers[w].pc = "store"
    /\ LET wr == workers[w]
           message_id == MessageId(wr.msg)
       IN  /\ emailIn' = IF IntegrityError(message_id) THEN emailIn
                          ELSE Append(emailIn, [NewRow(lists[1], wr.msg, wr.status,
                                                       wr.error_info)
                                                    EXCEPT !.message_id = message_id])
           /\ workers' = [workers EXCEPT ![w] =
                            [@ EXCEPT !.pc = "move", !.message_id = message_id,
                                      !.stored = ~IntegrityError(message_id),
                                      !.folder = StoreFolder(wr.msg, wr.status)]]
    /\ UNCHANGED <<lists, subs, inbox, moved, sendCalls, nextUid, pc, todo, cur,
                   fetched, vin, vout, smtp, sentFolder, log, procs>>

\* the loop goes on with the next fetched message
NextMessage(wr) == WorkerOn(wr.rest, wr.cycle)

\* mailbox.flag(msg.uid, Seen); mailbox.move(msg.uid, target_folder); the function
\* returns no_duplicate and the loop continues unless the message is to be sent
WMove(w) ==
    /\ w \in DOMAIN workers
    /\ workers[w].pc = "move"
    /\ LET wr == workers[w]
           no_duplicate == wr.folder # "Duplicate"
       IN  /\ inbox' = [inbox EXCEPT ![1] = RemoveUid(@, wr.msg.uid)]
           /\ moved' = Append(moved,
                    [list_id |-> 1, uid |-> wr.msg.uid, mid |-> wr.message_id,
                     status |-> wr.status, error_info |-> wr.error_info,
                     bounce |-> detect_bounce(wr.msg), stored |-> wr.stored,
                     seen |-> TRUE, folder |-> wr.folder])
           /\ workers' = [workers EXCEPT ![w] =
                            IF ShouldSend(wr.status, no_duplicate)
                            THEN [@ EXCEPT !.pc = "send"]
                            ELSE NextMessage(@)]
    /\ UNCHANGED <<lists, subs, emailIn, sendCalls, nextUid, pc, todo, cur,
                   fetched, vin, vout, smtp, sentFolder, log, procs>>

\* send_msg_to_subscribers(app, msg, ml, mailbox)
WSend(w) ==
    /\ w \in DOMAIN workers
    /\ workers[w].pc = "send"
    /\ LET wr == workers[w]
           r == send_msg_to_subscribers(lists[1], wr.out, smtp, sentFolder)
       IN  /\ sendCalls' = Append(sendCalls,
                                  [list_id |-> 1, uid |-> wr.msg.uid, mid |-> wr.message_id,
                                   to |-> wr.out.to, cycle |-> wr.cycle])
           /\ smtp' = r.smtp
           /\ sentFolder' = r.sentFolder
           /\ workers' = [workers EXCEPT ![w] = NextMessage(@)]
    /\ UNCHANGED <<lists, subs, emailIn, inbox, moved, nextUid, pc, todo, cur,
                   fetched, vin, vout, log, procs>>

(***************************************************************************)
(* Two workers on one list, each with one of the two messages in INBOX     *)
(***************************************************************************)
InitWorkers ==
    /\ \E c \in PolledConfigs : lists = [l \in {1, 2} |-> IF l = 1 THEN c ELSE OpenList2]
    /\ subs = NestedSubs
    /\ \E a, b \in Arrivals(1) :
            /\ inbox = [l \in {1, 2} |-> IF l = 1 THEN Mailbox(<<a, b>>, 1) ELSE <<>>]
            /\ workers = [w \in {1, 2} |-> WorkerOn(<<Mailbox(<<a, b>>, 1)[w]>>, 1)]
    /\ nextUid = 3
    /\ emailIn = <<>> /\ moved = <<>> /\ sendCalls = <<>>
    /\ pc = "sleep" /\ todo = <<>> /\ cur = 0 /\ fetched = <<>> /\ log = <<>>
    /\ vin = <<>> /\ vout = <<>> /\ smtp = <<>> /\ sentFolder = <<>>
    /\ procs = <<>>

NextWorkers ==
    \/ \E w \in WorkerIds : WChecks(w)
    \/ \E w \in WorkerIds : WStore(w)
    \/ \E w \in WorkerIds : WMove(w)
    \/ \E w \in WorkerIds : WSend(w)

SpecWorkers == InitWorkers /\ [][NextWorkers]_vars

(***************************************************************************)
(* C21. Duplicate suppression under concurrent writers: when two workers   *)
(* process messages with the same (Message-ID, list) concurrently, in      *)
(* every interleaving exactly one insert commits and no other worker       *)
(* forwards; the worker whose insert hits the constraint moves its message *)
(* to Duplicate, makes no send and runs to the end of its loop body.       *)
(***************************************************************************)
\* the workers that are past the commit for Message-ID mid and still in the loop body
Storing(mid) ==
    {w \in DOMAIN workers : workers[w].message_id = mid /\ workers[w].pc \in {"move", "send"}}

\* the uids of the messages with Message-ID mid whose insert was attempted, and of those
\* whose insert committed
Attempts(mid) ==
    {workers[w].msg.uid : w \in Storing(mid)} \cup {e.uid : e \in {h \in Handled : h.mid = mid}}

Commits(mid) ==
    {workers[w].msg.uid : w \in {x \in Storing(mid) : workers[x].stored}}
        \cup {e.uid : e \in {h \in Handled : h.mid = mid /\ h.stored}}

RowsWith(mid) == {i \in 1..Len(emailIn) : emailIn[i].message_id = mid}

AllDone == \A w \in DOMAIN workers : workers[w].pc = "done"

C21_ConcurrentDuplicateSuppression ==
    /\ \A mid \in Mids :
          /\ Cardinality(RowsWith(mid)) = Cardinality(Commits(mid))
          /\ Attempts(mid) # {} => Cardinality(Commits(mid)) = 1
          /\ \A w \in Storing(mid) :
                ~workers[w].stored => (workers[w].folder = "Duplicate" /\ workers[w].pc = "move")
          /\ \A e \in Handled :
                (e.mid = mid /\ ~e.stored) => (e.folder = "Duplicate" /\ ~SentFor(e))
          /\ \A i \in 1..Len(sendCalls) :
                sendCalls[i].mid = mid => Commits(mid) = {sendCalls[i].uid}
    /\ AllDone =>
          /\ \A i \in 1..Len(inbox[1]) :
                validate_email_all_checks(inbox[1][i], lists[1], AppDomain).raised
          /\ \A e \in Handled : (e.stored /\ e.status = "ok") => SentFor(e)

\* both workers had an accepted message with the same Message-ID; the worker of the
\* second message committed first and forwarded, the other one moved the first message
\* to Duplicate
C21_Witness ==
    /\ AllDone
    /\ \E e1, e2 \in Handled :
          /\ e1.uid = 1 /\ e2.uid = 2 /\ e1.mid = e2.mid
          /\ e1.status = "ok" /\ e2.status = "ok"
          /\ e2.stored /\ SentFor(e2)
          /\ ~e1.stored /\ e1.folder = "Duplicate" /\ ~SentFor(e1)

(***************************************************************************)
(* C22. Ordering of send and move: a message with status ok whose row was  *)
(* stored is flagged Seen and moved to Processed only after its list-send: *)
(* whenever it is found moved, send_msg_to_subscribers has been called for *)
(* it.                                                                     *)
(***************************************************************************)
C22_MoveAfterSend ==
    \A e \in Handled :
        (e.status = "ok" /\ e.stored /\ e.seen /\ e.folder = "Processed") => SentFor(e)

(***************************************************************************)
(* One process polling list 1 cycle after cycle, crashing and restarting   *)
(* at any point of the loop body: the database and the IMAP folders keep   *)
(* what was committed and moved, the process forgets what it had fetched   *)
(***************************************************************************)
\* posts with a Message-ID header and posts without one
CrashArrivals ==
    { Arrival(mid, from_, to, <<>>, <<>>) :
        mid \in {<<"1">>, <<>>},
        from_ \in {AddrAdmin, AddrMember},
        to \in {<<AddrList1>>, <<ToSecret>>} }

InitCrash ==
    /\ \E c \in PolledConfigs : lists = [l \in {1, 2} |-> IF l = 1 THEN c ELSE OpenList2]
    /\ subs = NestedSubs
    /\ \E n \in 1..MaxInbox : \E first \in [1..n -> CrashArrivals] :
            /\ inbox = [l \in {1, 2} |-> IF l = 1 THEN Mailbox(first, 1) ELSE <<>>]
            /\ nextUid = n + 1
    /\ workers = [w \in {1} |-> WorkerOn(<<>>, 0)]
    /\ emailIn = <<>> /\ moved = <<>> /\ sendCalls = <<>>
    /\ pc = "sleep" /\ todo = <<>> /\ cur = 0 /\ fetched = <<>> /\ log = <<>>
    /\ vin = <<>> /\ vout = <<>> /\ smtp = <<>> /\ sentFolder = <<>>
    /\ procs = <<>>

\* check_all_lists_for_messages logs in and fetches the INBOX
WStart(w) ==
    /\ w \in DOMAIN workers
    /\ workers[w].pc = "done"
    /\ workers[w].cycle < MaxCycles
    /\ workers' = [workers EXCEPT ![w] = WorkerOn(inbox[1], @.cycle + 1)]
    /\ UNCHANGED <<lists, subs, emailIn, inbox, moved, sendCalls, nextUid, pc, todo, cur,
                   fetched, vin, vout, smtp, sentFolder, log, procs>>

\* the process dies inside the loop body and is started again
Crash(w) ==
    /\ w \in DOMAIN workers
    /\ workers[w].pc \in {"checks", "store", "move", "send"}
    /\ workers' = [workers EXCEPT ![w] = WorkerOn(<<>>, @.cycle)]
    /\ UNCHANGED <<lists, subs, emailIn, inbox, moved, sendCalls, nextUid, pc, todo, cur,
                   fetched, vin, vout, smtp, sentFolder, log, procs>>

NextCrash ==
    \/ \E w \in WorkerIds : WStart(w)
    \/ \E w \in WorkerIds : WChecks(w)
    \/ \E w \in WorkerIds : WStore(w)
    \/ \E w \in WorkerIds : WMove(w)
    \/ \E w \in WorkerIds : WSend(w)
    \/ \E w \in WorkerIds : Crash(w)

SpecCrash == InitCrash /\ [][NextCrash]_vars

(***************************************************************************)
(* C26. At-most-once forwarding across crashes: wherever the process       *)
(* crashes and restarts while it works on a message, the list-send is      *)
(* never made for the same inbound message, nor for two messages with the  *)
(* same Message-ID, in two different poll cycles.                          *)
(***************************************************************************)
C26_AtMostOnceAcrossCrashes ==
    \A i, j \in 1..Len(sendCalls) :
        (sendCalls[i].uid = sendCalls[j].uid \/ sendCalls[i].mid = sendCalls[j].mid)
            => sendCalls[i].cycle = sendCalls[j].cycle

\* the process crashed between the insert and the move of a message without Message-ID,
\* which a later cycle fetched and stored again and sent, once
C26_Witness ==
    /\ nextUid = 2 /\ Len(moved) = 1
    /\ Len(emailIn) = 2 /\ emailIn[1].status = "ok"
    /\ moved[1].stored /\ moved[1].folder = "Processed"
    /\ Len(sendCalls) = 1 /\ sendCalls[1].cycle > 1

(***************************************************************************)
(* The scheduler: processes and their poll threads                         *)
(*                                                                         *)
(* app.main() starts the poll thread and then calls app.run(debug=...),    *)
(* which sets app.debug and, with debug on, runs the reloader: the process *)
(* that was launched spawns a child with WERKZEUG_RUN_MAIN=true that runs  *)
(* main() again, and replaces the child whenever a watched file changes.   *)
(* The poll thread reads app.debug in run_only_once without synchronising  *)
(* with the main thread that writes it, so both orders are interleavings.  *)
(***************************************************************************)
ProcIds == {1, 2}

ThreadIds == {1, 2}

\* a process at the top of main(): app.debug is Flask's default, taken from FLASK_DEBUG
NewProc(arg_debug, flask_debug, run_main) ==
    [arg_debug |-> arg_debug, flask_debug |-> flask_debug, run_main |-> run_main,
     debug |-> flask_debug, main |-> "start", threads |-> <<>>]

\* utils.run_only_once
run_only_once(app) ==
    IF ~app.debug THEN TRUE
    ELSE IF app.debug /\ app.run_main THEN TRUE
    ELSE FALSE

\* main(): threading.Thread(target=poll_imap, ...).start()
StartThread(p) ==
    /\ p \in DOMAIN procs
    /\ procs[p].main = "start"
    /\ procs' = [procs EXCEPT ![p].main = "run",
                              ![p].threads = Append(@, [pc |-> "guard", todo |-> <<>>, at |-> 0])]
    /\ UNCHANGED <<lists, subs, emailIn, inbox, moved, sendCalls, nextUid, pc, todo, cur>>
    /\ UNCHANGED <<fetched, vin, vout, smtp, sentFolder, log, workers>>

\* main(): app.run(debug=args.debug) sets app.debug; with debug on, the launched process
\* becomes the reloader and spawns the child that inherits its command line and environment
AppRun(p) ==
    /\ p \in DOMAIN procs
    /\ procs[p].main = "run"
    /\ LET app == [procs[p] EXCEPT !.debug = procs[p].arg_debug, !.main = "serving"]
           child == NewProc(app.arg_debug, app.flask_debug, TRUE)
       IN  procs' = IF app.arg_debug /\ ~app.run_main
                    THEN [q \in {p, p + 1} |-> IF q = p THEN app ELSE child]
                    ELSE [procs EXCEPT ![p] = app]
    /\ UNCHANGED <<lists, subs, emailIn, inbox, moved, sendCalls, nextUid, pc, todo, cur>>
    /\ UNCHANGED <<fetched, vin, vout, smtp, sentFolder, log, workers>>

\* the reloader: a watched file changed, the child exits with all its threads and the
\* parent starts it again
Reload ==
    /\ 2 \in DOMAIN procs
    /\ procs[2].main # "start"
    /\ procs' = [procs EXCEPT ![2] = NewProc(@.arg_debug, @.flask_debug, TRUE)]
    /\ UNCHANGED <<lists, subs, emailIn, inbox, moved, sendCalls, nextUid, pc, todo, cur>>
    /\ UNCHANGED <<fetched, vin, vout, smtp, sentFolder, log, workers>>

\* poll_imap: the loop condition; check_all_lists_for_messages queries the lists
Guard(p, t) ==
    /\ p \in DOMAIN procs
    /\ t \in DOMAIN procs[p].threads
    /\ procs[p].threads[t].pc = "guard"
    /\ procs' = [procs EXCEPT ![p].threads[t] =
                    IF run_only_once(procs[p])
                    THEN [pc |-> "polling", todo |-> ActiveLists(1), at |-> 0]
                    ELSE [pc |-> "ended", todo |-> <<>>, at |-> 0]]
    /\ UNCHANGED <<lists, subs, emailIn, inbox, moved, sendCalls, nextUid, pc, todo, cur>>
    /\ UNCHANGED <<fetched, vin, vout, smtp, sentFolder, log, workers>>

\* check_all_lists_for_messages: the mailbox of the next list is opened
OpenMailbox(p, t) ==
    /\ p \in DOMAIN procs
    /\ t \in DOMAIN procs[p].threads
    /\ procs[p].threads[t].pc = "polling"
    /\ procs[p].threads[t].at = 0
    /\ procs[p].threads[t].todo # <<>>
    /\ procs' = [procs EXCEPT ![p].threads[t].at = Head(procs[p].threads[t].todo),
                              ![p].threads[t].todo = Tail(@)]
    /\ UNCHANGED <<lists, subs, emailIn, inbox, moved, sendCalls, nextUid, pc, todo, cur>>
    /\ UNCHANGED <<fetched, vin, vout, smtp, sentFolder, log, workers>>

\* check_all_lists_for_messages: the list's messages are processed, the mailbox is closed
CloseMailbox(p, t) ==
    /\ p \in DOMAIN procs
    /\ t \in DOMAIN procs[p].threads
    /\ procs[p].threads[t].pc = "polling"
    /\ procs[p].threads[t].at # 0
    /\ procs' = [procs EXCEPT ![p].threads[t].at = 0]
    /\ UNCHANGED <<lists, subs, emailIn, inbox, moved, sendCalls, nextUid, pc, todo, cur>>
    /\ UNCHANGED <<fetched, vin, vout, smtp, sentFolder, log, workers>>

\* poll_imap: the cycle is over, time.sleep(POLL_INTERVAL_SECONDS)
Sleep(p, t) ==
    /\ p \in DOMAIN procs
    /\ t \in DOMAIN procs[p].threads
    /\ procs[p].threads[t].pc = "polling"
    /\ procs[p].threads[t].at = 0
    /\ procs[p].threads[t].todo = <<>>
    /\ procs' = [procs EXCEPT ![p].threads[t].pc = "sleep"]
    /\ UNCHANGED <<lists, subs, emailIn, inbox, moved, sendCalls, nextUid, pc, todo, cur>>
    /\ UNCHANGED <<fetched, vin, vout, smtp, sentFolder, log, workers>>

\* poll_imap: the sleep is over, back to the loop condition
Wake(p, t) ==
    /\ p \in DOMAIN procs
    /\ t \in DOMAIN procs[p].threads
    /\ procs[p].threads[t].pc = "sleep"
    /\ procs' = [procs EXCEPT ![p].threads[t].pc = "guard"]
    /\ UNCHANGED <<lists, subs, emailIn, inbox, moved, sendCalls, nextUid, pc, todo, cur>>
    /\ UNCHANGED <<fetched, vin, vout, smtp, sentFolder, log, workers>>

\* castmail2list is launched with or without --debug, FLASK_DEBUG set or not
InitSched ==
    /\ \E c \in PolledConfigs : lists = [l \in {1, 2} |-> IF l = 1 THEN c ELSE OpenList2]
    /\ subs = NestedSubs
    /\ inbox = [l \in {1, 2} |-> <<>>]
    /\ nextUid = 1
    /\ emailIn = <<>> /\ moved = <<>> /\ sendCalls = <<>>
    /\ pc = "sleep" /\ todo = <<>> /\ cur = 0 /\ fetched = <<>> /\ log = <<>>
    /\ vin = <<>> /\ vout = <<>> /\ smtp = <<>> /\ sentFolder = <<>>
    /\ workers = <<>>
    /\ \E arg_debug, flask_debug \in BOOLEAN :
            procs = [p \in {1} |-> NewProc(arg_debug, flask_debug, FALSE)]

NextSched ==
    \/ \E p \in ProcIds : StartThread(p)
    \/ \E p \in ProcIds : AppRun(p)
    \/ Reload
    \/ \E p \in ProcIds : \E t \in ThreadIds : Guard(p, t)
    \/ \E p \in ProcIds : \E t \in ThreadIds : OpenMailbox(p, t)
    \/ \E p \in ProcIds : \E t \in ThreadIds : CloseMailbox(p, t)
    \/ \E p \in ProcIds : \E t \in ThreadIds : Sleep(p, t)
    \/ \E p \in ProcIds : \E t \in ThreadIds : Wake(p, t)

SpecSched == InitSched /\ [][NextSched]_vars

\* the poll threads of process p that are inside a poll cycle
Polling(p) == {t \in DOMAIN procs[p].threads : procs[p].threads[t].pc = "polling"}

\* the poll threads of process p whose loop has not ended
Looping(p) == {t \in DOMAIN procs[p].threads : procs[p].threads[t].pc # "ended"}

\* the (process, thread) pairs that have the mailbox of list l open
CyclesOn(l) ==
    {pt \in ProcIds \X ThreadIds :
        /\ pt[1] \in DOMAIN procs
        /\ pt[2] \in DOMAIN procs[pt[1]].threads
        /\ procs[pt[1]].threads[pt[2]].at = l}

(***************************************************************************)
(* C25. Single scheduler: a poll cycle runs only in a process for which    *)
(* run_only_once holds, at most one process is inside a poll cycle, every  *)
(* process has at most one poll loop, and no list is being polled by two   *)
(* cycles at the same time.                                                *)
(***************************************************************************)
C25_SingleScheduler ==
    /\ \A p \in DOMAIN procs : Polling(p) # {} => run_only_once(procs[p])
    /\ Cardinality({p \in DOMAIN procs : Polling(p) # {}}) <= 1
    /\ \A p \in DOMAIN procs : Cardinality(Looping(p)) <= 1
    /\ \A l \in ListIds : Cardinality(CyclesOn(l)) <= 1

====
